---- MODULE Spec2Model ----
(***************************************************************************)
(* Transport control and playback position of the audio player in          *)
(* src/src/main.rs: the control loop of run_app, the key handlers, seek    *)
(* and the pipeline (raw decoder or Equalizer) the sink plays.             *)
(*                                                                         *)
(* Durations are in milliseconds.  The decoded stream is indexed by the    *)
(* millisecond of audio a sample belongs to, so skip_duration(p) skips p   *)
(* samples.  The sink is rodio's: a new Sink is not paused, play/pause     *)
(* clear/set its pause flag, stop empties its queue, clear empties the     *)
(* queue and pauses, append queues a source.                               *)
(***************************************************************************)
EXTENDS Integers, Sequences, FiniteSets

\* ---------------------------------------------------------------- bounds
\* Wall-clock horizon of a run, in ms: the loop does not sleep past it.
MaxNow == 50
\* Samples the output-device thread pulls from one appended source.
MaxPull == 2

\* ------------------------------------------------------- program constants
TickMs == 10
PollMs == 10
SleepMs == 10
SeekMs == 5000

\* Track durations tried (decoder.total_duration().unwrap_or(0)).
TrackDurations == {0, 25, 8000, 200000}

\* Key codes event::read can deliver; "other" is any key or event without a
\* handler.
Keys == {"q", "space", "e", "left", "right", "other"}
Commands == {"space", "e", "left", "right"}

\* How long event::poll waits before a key arrives: at once, or at the end
\* of the timeout.
PollWaits == {0, PollMs}

VARIABLES
  pc,           \* position of the control thread
  res,          \* how run_app ended: "none", "Ok", "Err", "panic"
  held,         \* mutexes the control thread holds, in acquisition order
  paused,       \* the sink's pause flag (sink.is_paused())
  source,       \* the source queued in the sink
  progress,     \* AudioPlayer.progress
  duration,     \* AudioPlayer.duration
  eq_enabled,   \* AudioPlayer.eq_enabled
  key,          \* key.code of this iteration, "none" without a key
  current_pos,  \* local of the key handlers
  position,     \* argument of seek
  toggle_eq,    \* argument of seek
  was_playing,  \* local of seek
  pending,      \* local `source` of seek, before it is appended
  now,          \* wall clock, ms since startup
  loops,        \* completed iterations of the loop
  history,      \* the last two commands, each with the state it started in
  eq_input,     \* the samples of the upstream source of an Equalizer
  eq_source,    \* Equalizer.source: the samples not pulled yet
  eq_filters,   \* Equalizer.filters
  eq_out,       \* the samples Equalizer::next has returned
  eq_done       \* Equalizer::next has returned None

transportVars ==
  <<pc, res, held, paused, source, progress, duration, eq_enabled, key,
    current_pos, position, toggle_eq, was_playing, pending, now, loops,
    history>>

eqVars == <<eq_input, eq_source, eq_filters, eq_out, eq_done>>

vars == <<transportVars, eqVars>>

\* ------------------------------------------------------------ pure helpers
Min(a, b) == IF a < b THEN a ELSE b
Max(a, b) == IF a > b THEN a ELSE b
Clamp(x, lo, hi) == Max(lo, Min(x, hi))

\* Duration::saturating_sub
SaturatingSub(a, b) == IF a >= b THEN a - b ELSE 0

\* No source queued (after stop or clear, and seek's local before it is built).
NoSource == [kind |-> "None", next |-> 0, pulled |-> 0, processed |-> 0]

\* Equalizer::new(decoder, gains) or the bare decoder, on a re-opened file:
\* the next sample is sample 0 and a new filter bank has processed nothing.
NewSource(eq) ==
  [kind |-> IF eq THEN "Equalized" ELSE "Raw", next |-> 0, pulled |-> 0,
   processed |-> 0]

\* Equalizer::next / decoder next, n times: each sample pulled through an
\* Equalizer runs through its filters.
Pull(s, n) ==
  [s EXCEPT !.next = @ + n,
            !.processed = IF s.kind = "Equalized" THEN @ + n ELSE @]

\* The skip done on the decoder, under the filter bank.
SkipDuration_OnDecoder(s, p) == [s EXCEPT !.next = @ + p]

\* source.skip_duration(p): rodio pulls the skipped samples from the source it
\* is given, here the boxed pipeline (the Equalizer when enabled).
SkipDuration(s, p) == Pull(s, p)

TypeOK ==
  /\ res \in {"none", "Ok", "Err", "panic"}
  /\ paused \in BOOLEAN
  /\ eq_enabled \in BOOLEAN
  /\ progress \in Nat
  /\ duration \in TrackDurations
  /\ key \in Keys \cup {"none"}
  /\ now \in 0..(MaxNow + PollMs)
  /\ Len(history) <= 2

TransportInit ==
  /\ pc = "draw"
  /\ res = "none"
  /\ held = <<>>
  /\ paused = FALSE
  /\ source = NewSource(TRUE)
  /\ progress = 0
  /\ duration \in TrackDurations
  /\ eq_enabled = TRUE
  /\ key = "none"
  /\ current_pos = 0
  /\ position = 0
  /\ toggle_eq = FALSE
  /\ was_playing = FALSE
  /\ pending = NoSource
  /\ now = 0
  /\ loops = 0
  /\ history = <<>>

\* The transport alone: the samples of the pipeline are left out.
Init ==
  /\ TransportInit
  /\ eq_input = <<>>
  /\ eq_source = <<>>
  /\ eq_filters = <<>>
  /\ eq_out = <<>>
  /\ eq_done = FALSE


\* Mutex::lock by the control thread: it blocks on a mutex that is held.
Holds(l) == \E i \in 1..Len(held) : held[i] = l
Acquire(l) == ~Holds(l) /\ held' = Append(held, l)
\* The guard taken last is dropped.
Release == held' = SubSeq(held, 1, Len(held) - 1)

\* The state a command starts in, kept with its key and the time it arrives.
Snapshot(k, w) ==
  [key |-> k, paused |-> paused, eq |-> eq_enabled, kind |-> source.kind,
   pos |-> progress, at |-> now + w]

Remember(k, w) ==
  IF Len(history) < 2 THEN Append(history, Snapshot(k, w))
  ELSE <<history[2], Snapshot(k, w)>>

\* ------------------------------------------------------------ run_app loop
\* terminal.draw(|f| ui(f, &audio_player))?: ui takes the progress lock ...
UiLock ==
  /\ pc = "draw"
  /\ Acquire("progress")
  /\ pc' = "ui"
  /\ UNCHANGED eqVars
  /\ UNCHANGED <<res, paused, source, progress, duration, eq_enabled, key,
                 current_pos, position, toggle_eq, was_playing, pending, now,
                 loops, history>>

\* ... copies the position out and releases it at the end of the statement;
\* the rest of ui reads duration and eq_enabled and writes nothing.
UiRender ==
  /\ pc = "ui"
  /\ Release
  /\ pc' = "poll"
  /\ UNCHANGED eqVars
  /\ UNCHANGED <<res, paused, source, progress, duration, eq_enabled, key,
                 current_pos, position, toggle_eq, was_playing, pending, now,
                 loops, history>>

\* draw failed: `?` returns the error from run_app.
DrawErr ==
  /\ pc = "draw"
  /\ pc' = "returned"
  /\ res' = "Err"
  /\ UNCHANGED eqVars
  /\ UNCHANGED <<held, paused, source, progress, duration, eq_enabled, key,
                 current_pos, position, toggle_eq, was_playing, pending, now,
                 loops, history>>

\* event::poll(10 ms) times out: no key in this iteration.
PollTimeout ==
  /\ pc = "poll"
  /\ now + PollMs <= MaxNow
  /\ now' = now + PollMs
  /\ key' = "none"
  /\ pc' = "tick"
  /\ UNCHANGED eqVars
  /\ UNCHANGED <<res, held, paused, source, progress, duration, eq_enabled,
                 current_pos, position, toggle_eq, was_playing, pending,
                 loops, history>>

\* event::poll or event::read failed.
PollErr ==
  /\ pc = "poll"
  /\ pc' = "returned"
  /\ res' = "Err"
  /\ UNCHANGED eqVars
  /\ UNCHANGED <<held, paused, source, progress, duration, eq_enabled, key,
                 current_pos, position, toggle_eq, was_playing, pending, now,
                 loops, history>>

\* Where `match key.code` goes.
Dispatch(k) ==
  CASE k = "q" -> "returned"
    [] k = "space" -> "space"
    [] k \in {"e", "left", "right"} -> "key_pos"
    [] OTHER -> "tick"

\* A key arrives after w ms and is matched.
PollKey(k, w) ==
  /\ pc = "poll"
  /\ now + w <= MaxNow
  /\ now' = now + w
  /\ key' = k
  /\ pc' = Dispatch(k)
  /\ res' = IF k = "q" THEN "Ok" ELSE res
  /\ history' = IF k \in Commands THEN Remember(k, w) ELSE history
  /\ UNCHANGED eqVars
  /\ UNCHANGED <<held, paused, source, progress, duration, eq_enabled,
                 current_pos, position, toggle_eq, was_playing, pending,
                 loops>>

\* ' ': let sink = audio_player.sink.lock().unwrap();
SpaceLock ==
  /\ pc = "space"
  /\ Acquire("sink")
  /\ pc' = "space_toggle"
  /\ UNCHANGED eqVars
  /\ UNCHANGED <<res, paused, source, progress, duration, eq_enabled, key,
                 current_pos, position, toggle_eq, was_playing, pending, now,
                 loops, history>>

\* sink.stop() in place of sink.pause(): the queue is emptied.
SpaceToggle_Stops ==
  /\ pc = "space_toggle"
  /\ paused' = ~paused
  /\ source' = IF paused THEN source ELSE NoSource
  /\ Release
  /\ pc' = "tick"
  /\ UNCHANGED eqVars
  /\ UNCHANGED <<res, progress, duration, eq_enabled, key, current_pos,
                 position, toggle_eq, was_playing, pending, now, loops,
                 history>>

\* if sink.is_paused() { sink.play() } else { sink.pause() }; the guard is
\* dropped at the end of the arm.
SpaceToggle ==
  /\ pc = "space_toggle"
  /\ paused' = ~paused
  /\ Release
  /\ pc' = "tick"
  /\ UNCHANGED eqVars
  /\ UNCHANGED <<res, source, progress, duration, eq_enabled, key,
                 current_pos, position, toggle_eq, was_playing, pending, now,
                 loops, history>>

\* 'e', Left, Right: audio_player.progress.lock() ...
KeyLockProgress ==
  /\ pc = "key_pos"
  /\ Acquire("progress")
  /\ pc' = "key_read"
  /\ UNCHANGED eqVars
  /\ UNCHANGED <<res, paused, source, progress, duration, eq_enabled, key,
                 current_pos, position, toggle_eq, was_playing, pending, now,
                 loops, history>>

\* The toggle seeking to the start of the track instead of in place.
SeekTarget_ToggleRestarts(k, cur, dur) ==
  CASE k = "left" -> SaturatingSub(cur, SeekMs)
    [] k = "right" -> Min(cur + SeekMs, dur)
    [] OTHER -> 0

\* The targets without saturating_sub and min.
SeekTarget_NoClamp(k, cur, dur) ==
  CASE k = "left" -> cur - SeekMs
    [] k = "right" -> cur + SeekMs
    [] OTHER -> cur

\* The position each handler passes to seek.
SeekTarget(k, cur, dur) ==
  CASE k = "left" -> SaturatingSub(cur, SeekMs)
    [] k = "right" -> Min(cur + SeekMs, dur)
    [] OTHER -> cur

\* The handler binds the guard instead of copying the value out of it, and
\* calls seek with the position lock held.
KeyReadPos_KeepsGuard ==
  /\ pc = "key_read"
  /\ current_pos' = progress
  /\ position' = SeekTarget(key, progress, duration)
  /\ toggle_eq' = (key = "e")
  /\ pc' = "seek"
  /\ UNCHANGED eqVars
  /\ UNCHANGED <<res, held, paused, source, progress, duration, eq_enabled,
                 key, was_playing, pending, now, loops, history>>

\* ... let current_pos = *guard (the temporary guard is dropped), then the
\* call seek(&mut audio_player, new_pos, toggle).
KeyReadPos ==
  /\ pc = "key_read"
  /\ current_pos' = progress
  /\ position' = SeekTarget(key, progress, duration)
  /\ toggle_eq' = (key = "e")
  /\ Release
  /\ pc' = "seek"
  /\ UNCHANGED eqVars
  /\ UNCHANGED <<res, paused, source, progress, duration, eq_enabled, key,
                 was_playing, pending, now, loops, history>>

\* -------------------------------------------------------------------- seek
\* let sink = &mut audio_player.sink.lock().unwrap() (held to the end of
\* seek); was_playing = !sink.is_paused(); if !toggle_eq { sink.stop() }.
SeekEnter ==
  /\ pc = "seek"
  /\ Acquire("sink")
  /\ was_playing' = ~paused
  /\ source' = IF ~toggle_eq THEN NoSource ELSE source
  /\ pc' = "seek_build"
  /\ UNCHANGED eqVars
  /\ UNCHANGED <<res, paused, progress, duration, eq_enabled, key,
                 current_pos, position, toggle_eq, pending, now, loops,
                 history>>

\* eq_enabled flipped by every seek, not only by the toggle.
SeekBuild_AlwaysFlips ==
  /\ pc = "seek_build"
  /\ eq_enabled' = ~eq_enabled
  /\ pending' = NewSource(eq_enabled')
  /\ pc' = "seek_append"
  /\ UNCHANGED eqVars
  /\ UNCHANGED <<res, held, paused, source, progress, duration, key,
                 current_pos, position, toggle_eq, was_playing, now, loops,
                 history>>

\* The pipeline is chosen from eq_enabled as it was before the flip.
SeekBuild_StaleToggle ==
  /\ pc = "seek_build"
  /\ eq_enabled' = IF toggle_eq THEN ~eq_enabled ELSE eq_enabled
  /\ pending' = NewSource(eq_enabled)
  /\ pc' = "seek_append"
  /\ UNCHANGED eqVars
  /\ UNCHANGED <<res, held, paused, source, progress, duration, key,
                 current_pos, position, toggle_eq, was_playing, now, loops,
                 history>>

\* The file is re-opened and decoded; if toggle_eq, eq_enabled is flipped;
\* the new pipeline is the Equalizer on the decoder when eq_enabled, the
\* decoder otherwise.
SeekBuild ==
  /\ pc = "seek_build"
  /\ eq_enabled' = IF toggle_eq THEN ~eq_enabled ELSE eq_enabled
  /\ pending' = NewSource(eq_enabled')
  /\ pc' = "seek_append"
  /\ UNCHANGED eqVars
  /\ UNCHANGED <<res, held, paused, source, progress, duration, key,
                 current_pos, position, toggle_eq, was_playing, now, loops,
                 history>>

\* File::open or Decoder::new failed: expect panics, with the sink guard held.
SeekPanic ==
  /\ pc = "seek_build"
  /\ pc' = "panicked"
  /\ res' = "panic"
  /\ UNCHANGED eqVars
  /\ UNCHANGED <<held, paused, source, progress, duration, eq_enabled, key,
                 current_pos, position, toggle_eq, was_playing, pending, now,
                 loops, history>>

\* sink.clear() empties the queue and pauses the sink;
\* sink.append(source.skip_duration(position)) queues the skipped pipeline.
SeekAppend ==
  /\ pc = "seek_append"
  /\ paused' = TRUE
  /\ source' = SkipDuration(pending, position)
  /\ pending' = NoSource
  /\ pc' = "seek_lock"
  /\ UNCHANGED eqVars
  /\ UNCHANGED <<res, held, progress, duration, eq_enabled, key, current_pos,
                 position, toggle_eq, was_playing, now, loops, history>>

\* audio_player.progress.lock() while the sink guard is held ...
SeekLockProgress ==
  /\ pc = "seek_lock"
  /\ Acquire("progress")
  /\ pc' = "seek_store"
  /\ UNCHANGED eqVars
  /\ UNCHANGED <<res, paused, source, progress, duration, eq_enabled, key,
                 current_pos, position, toggle_eq, was_playing, pending, now,
                 loops, history>>

\* ... *guard = position; the temporary guard is dropped.
SeekStore ==
  /\ pc = "seek_store"
  /\ progress' = position
  /\ Release
  /\ pc' = "seek_resume"
  /\ UNCHANGED eqVars
  /\ UNCHANGED <<res, paused, source, duration, eq_enabled, key, current_pos,
                 position, toggle_eq, was_playing, pending, now, loops,
                 history>>

\* seek returns without sink.play(): the sink stays as clear() left it.
SeekResume_NoPlay ==
  /\ pc = "seek_resume"
  /\ Release
  /\ pc' = "tick"
  /\ UNCHANGED eqVars
  /\ UNCHANGED <<res, paused, source, progress, duration, eq_enabled, key,
                 current_pos, position, toggle_eq, was_playing, pending, now,
                 loops, history>>

\* sink.play() whatever was_playing is.
SeekResume_AlwaysPlay ==
  /\ pc = "seek_resume"
  /\ paused' = FALSE
  /\ Release
  /\ pc' = "tick"
  /\ UNCHANGED eqVars
  /\ UNCHANGED <<res, source, progress, duration, eq_enabled, key,
                 current_pos, position, toggle_eq, was_playing, pending, now,
                 loops, history>>

\* if was_playing { sink.play() }; seek returns and drops the sink guard.
SeekResume ==
  /\ pc = "seek_resume"
  /\ paused' = IF was_playing THEN FALSE ELSE paused
  /\ Release
  /\ pc' = "tick"
  /\ UNCHANGED eqVars
  /\ UNCHANGED <<res, source, progress, duration, eq_enabled, key,
                 current_pos, position, toggle_eq, was_playing, pending, now,
                 loops, history>>

\* ------------------------------------------------- the block after the match
\* let sink = audio_player.sink.lock().unwrap();
TickLockSink ==
  /\ pc = "tick"
  /\ Acquire("sink")
  /\ pc' = "tick_check"
  /\ UNCHANGED eqVars
  /\ UNCHANGED <<res, paused, source, progress, duration, eq_enabled, key,
                 current_pos, position, toggle_eq, was_playing, pending, now,
                 loops, history>>

\* The tick's test with the negation lost, and with no test at all.
TickPlaying_Inverted == paused
TickPlaying_Always == TRUE

\* !sink.is_paused() in the block after the match.
TickPlaying == ~paused

\* if !sink.is_paused() { let mut progress = audio_player.progress.lock() ...
TickLockProgress ==
  /\ pc = "tick_check"
  /\ TickPlaying
  /\ Acquire("progress")
  /\ pc' = "tick_advance"
  /\ UNCHANGED eqVars
  /\ UNCHANGED <<res, paused, source, progress, duration, eq_enabled, key,
                 current_pos, position, toggle_eq, was_playing, pending, now,
                 loops, history>>

\* ... paused: the block ends and the sink guard is dropped.
TickSkip ==
  /\ pc = "tick_check"
  /\ ~TickPlaying
  /\ Release
  /\ pc' = "sleep"
  /\ UNCHANGED eqVars
  /\ UNCHANGED <<res, paused, source, progress, duration, eq_enabled, key,
                 current_pos, position, toggle_eq, was_playing, pending, now,
                 loops, history>>

\* The tick starting over at the end of the track.
Advance_Wrap(p, dur) == IF p + TickMs > dur THEN 0 ELSE p + TickMs

\* The tick without its clamp.
Advance_NoClamp(p, dur) == p + TickMs

\* *progress += 10 ms; if *progress > duration { *progress = duration }
Advance(p, dur) == IF p + TickMs > dur THEN dur ELSE p + TickMs

\* The position is advanced and both guards are dropped.
TickAdvance ==
  /\ pc = "tick_advance"
  /\ progress' = Advance(progress, duration)
  /\ held' = <<>>
  /\ pc' = "sleep"
  /\ UNCHANGED eqVars
  /\ UNCHANGED <<res, paused, source, duration, eq_enabled, key, current_pos,
                 position, toggle_eq, was_playing, pending, now, loops,
                 history>>

\* std::thread::sleep(10 ms); the next iteration starts with its locals unset.
Sleep ==
  /\ pc = "sleep"
  /\ now + SleepMs <= MaxNow
  /\ now' = now + SleepMs
  /\ loops' = loops + 1
  /\ key' = "none"
  /\ current_pos' = 0
  /\ position' = 0
  /\ toggle_eq' = FALSE
  /\ was_playing' = FALSE
  /\ pc' = "draw"
  /\ UNCHANGED eqVars
  /\ UNCHANGED <<res, held, paused, source, progress, duration, eq_enabled,
                 pending, history>>

\* ---------------------------------------------------- main, after run_app
\* run_app has returned: main restores the terminal and, if the result is an
\* error, prints it.
MainExit ==
  /\ pc = "returned"
  /\ pc' = IF res = "Err" THEN "reported" ELSE "exited"
  /\ UNCHANGED eqVars
  /\ UNCHANGED <<res, held, paused, source, progress, duration, eq_enabled,
                 key, current_pos, position, toggle_eq, was_playing, pending,
                 now, loops, history>>

\* ------------------------------------------------- the output-device thread
\* The sink's thread pulls the next sample of the queued source while the
\* sink is not paused and the track has samples left.
SinkPull ==
  /\ ~paused
  /\ source.kind # "None"
  /\ source.pulled < MaxPull
  /\ source.next < duration
  /\ source' = [Pull(source, 1) EXCEPT !.pulled = @ + 1]
  /\ UNCHANGED eqVars
  /\ UNCHANGED <<pc, res, held, paused, progress, duration, eq_enabled, key,
                 current_pos, position, toggle_eq, was_playing, pending, now,
                 loops, history>>

Next ==
  \/ UiLock
  \/ UiRender
  \/ DrawErr
  \/ PollTimeout
  \/ PollErr
  \/ \E k \in Keys, w \in PollWaits : PollKey(k, w)
  \/ SpaceLock
  \/ SpaceToggle
  \/ KeyLockProgress
  \/ KeyReadPos
  \/ SeekEnter
  \/ SeekBuild
  \/ SeekPanic
  \/ SeekAppend
  \/ SeekLockProgress
  \/ SeekStore
  \/ SeekResume
  \/ TickLockSink
  \/ TickLockProgress
  \/ TickSkip
  \/ TickAdvance
  \/ Sleep
  \/ MainExit
  \/ SinkPull

Spec == Init /\ [][Next]_vars

\* ------------------------------------------------ BiquadFilter, Equalizer
\* f32 values are fixed-point integers: Unit is 1.0, and every product and
\* quotient is rounded down to a multiple of 1/Unit.
Unit == 1000
Mul(a, b) == (a * b) \div Unit
Div(a, b) == (a * Unit) \div b

\* Samples the upstream source delivers: -1.0, 0, 0.7.
Samples == {-Unit, 0, 700}

\* Longest upstream sequence tried.
MaxSamples == 3

\* The band centres of Equalizer::new, in Hz, and its Q (1.41).
Frequencies == <<32, 64, 125, 250, 500, 1000, 2000, 4000, 8000, 16000>>
QFactor == 1410

\* db_gains of main and seek, in tenths of a dB.
DbGains == <<46, 80, 46, 9, 0, 30, 9, 0, 0, 0>>

\* sin and cos of omega = 2 pi f / sample_rate at 44.1 kHz, and
\* 10^(gain / 40), as fixed-point values.
SinOmega(f) ==
  CASE f = 32 -> 5 [] f = 64 -> 9 [] f = 125 -> 18 [] f = 250 -> 36
    [] f = 500 -> 71 [] f = 1000 -> 142 [] f = 2000 -> 281
    [] f = 4000 -> 540 [] f = 8000 -> 909 [] f = 16000 -> 759

CosOmega(f) ==
  CASE f = 32 -> 1000 [] f = 64 -> 1000 [] f = 125 -> 1000 [] f = 250 -> 999
    [] f = 500 -> 997 [] f = 1000 -> 990 [] f = 2000 -> 960
    [] f = 4000 -> 842 [] f = 8000 -> 418 [] f = 16000 -> -651

Pow10(g) ==
  CASE g = 0 -> Unit [] g = 9 -> 1053 [] g = 30 -> 1189 [] g = 46 -> 1303
    [] g = 80 -> 1585

\* The sign of b2 slipped: 1 + alpha * a.
BiquadNew_B2Sign(frequency, q, gain) ==
  LET alpha == Div(SinOmega(frequency), 2 * q)
      a == Pow10(gain)
      b0 == Unit + Mul(alpha, a)
      b1 == -2 * CosOmega(frequency)
      b2 == Unit + Mul(alpha, a)
      a0 == Unit + Div(alpha, a)
      a1 == -2 * CosOmega(frequency)
      a2 == Unit - Div(alpha, a)
  IN [b0 |-> Div(b0, a0), b1 |-> Div(b1, a0), b2 |-> Div(b2, a0),
      a1 |-> Div(a1, a0), a2 |-> Div(a2, a0),
      x1 |-> 0, x2 |-> 0, y1 |-> 0, y2 |-> 0]

\* BiquadFilter::new
BiquadNew(frequency, q, gain) ==
  LET alpha == Div(SinOmega(frequency), 2 * q)
      a == Pow10(gain)
      b0 == Unit + Mul(alpha, a)
      b1 == -2 * CosOmega(frequency)
      b2 == Unit - Mul(alpha, a)
      a0 == Unit + Div(alpha, a)
      a1 == -2 * CosOmega(frequency)
      a2 == Unit - Div(alpha, a)
  IN [b0 |-> Div(b0, a0), b1 |-> Div(b1, a0), b2 |-> Div(b2, a0),
      a1 |-> Div(a1, a0), a2 |-> Div(a2, a0),
      x1 |-> 0, x2 |-> 0, y1 |-> 0, y2 |-> 0]

\* BiquadFilter::process: the output, and the filter with its history shifted.
Process(f, input) ==
  LET output == Mul(f.b0, input) + Mul(f.b1, f.x1) + Mul(f.b2, f.x2)
                  - Mul(f.a1, f.y1) - Mul(f.a2, f.y2)
  IN [filter |-> [f EXCEPT !.x2 = f.x1, !.x1 = input, !.y2 = f.y1,
                           !.y1 = output],
      output |-> output]

\* Equalizer::new: frequencies.iter().zip(gains.iter()), one filter a pair.
EqualizerNew(gains) ==
  [k \in 1..Min(Len(Frequencies), Len(gains)) |->
     BiquadNew(Frequencies[k], QFactor, gains[k])]

\* Every filter fed the upstream sample, the last filter's output returned.
RECURSIVE Fold_Parallel(_, _, _)
Fold_Parallel(fs, k, s) ==
  IF k > Len(fs)
  THEN [filters |-> fs, sample |-> IF fs = <<>> THEN s ELSE fs[Len(fs)].y1]
  ELSE Fold_Parallel([fs EXCEPT ![k] = Process(fs[k], s).filter], k + 1, s)

\* self.filters.iter_mut().fold(sample, |s, filter| filter.process(s)), from
\* filter k on.
RECURSIVE Fold(_, _, _)
Fold(fs, k, s) ==
  IF k > Len(fs) THEN [filters |-> fs, sample |-> s]
  ELSE LET r == Process(fs[k], s)
       IN Fold([fs EXCEPT ![k] = r.filter], k + 1, r.output)

\* An Equalizer that yields nothing for a silent sample.
EqNext_DropsSilence ==
  /\ ~eq_done
  /\ eq_source # <<>>
  /\ LET r == Fold(eq_filters, 1, Head(eq_source))
     IN /\ eq_filters' = r.filters
        /\ eq_out' = IF Head(eq_source) = 0 THEN eq_out
                     ELSE Append(eq_out, r.sample)
  /\ eq_source' = Tail(eq_source)
  /\ UNCHANGED <<eq_input, eq_done>>
  /\ UNCHANGED transportVars

\* Equalizer::next with a sample upstream: the sample goes through the
\* filters and the result is returned.
EqNext ==
  /\ ~eq_done
  /\ eq_source # <<>>
  /\ LET r == Fold(eq_filters, 1, Head(eq_source))
     IN /\ eq_filters' = r.filters
        /\ eq_out' = Append(eq_out, r.sample)
  /\ eq_source' = Tail(eq_source)
  /\ UNCHANGED <<eq_input, eq_done>>
  /\ UNCHANGED transportVars

\* Equalizer::next with the upstream source exhausted: None.
EqEnd ==
  /\ ~eq_done
  /\ eq_source = <<>>
  /\ eq_done' = TRUE
  /\ UNCHANGED <<eq_input, eq_source, eq_filters, eq_out>>
  /\ UNCHANGED transportVars

\* A new Equalizer with the program's gains on an upstream source of up to
\* MaxSamples samples.
InitEq ==
  /\ TransportInit
  /\ eq_input \in UNION {[1..n -> Samples] : n \in 0..MaxSamples}
  /\ eq_source = eq_input
  /\ eq_filters = EqualizerNew(DbGains)
  /\ eq_out = <<>>
  /\ eq_done = FALSE

NextEq == EqNext \/ EqEnd

SpecEq == InitEq /\ [][NextEq]_vars

\* ------------------------------------------- the loop that keeps ticking
\* Iterations of the loop in which keys still arrive; after them no key is
\* pressed.
CmdLoops == 1

\* Track durations of the runs followed to the end of the track.
LiveDurations == {0, 25, 8000}

\* The clock stops counting at the horizon instead of ending the run.
Elapse(d) == now' = Min(now + d, MaxNow)

\* event::poll(10 ms) times out.
LivePollTimeout ==
  /\ pc = "poll"
  /\ Elapse(PollMs)
  /\ key' = "none"
  /\ pc' = "tick"
  /\ UNCHANGED eqVars
  /\ UNCHANGED <<res, held, paused, source, progress, duration, eq_enabled,
                 current_pos, position, toggle_eq, was_playing, pending,
                 loops, history>>

\* A key other than 'q' arrives after w ms and is matched.
LivePollKey(k, w) ==
  /\ pc = "poll"
  /\ loops < CmdLoops
  /\ Elapse(w)
  /\ key' = k
  /\ pc' = Dispatch(k)
  /\ history' = IF k \in Commands THEN Remember(k, w) ELSE history
  /\ UNCHANGED eqVars
  /\ UNCHANGED <<res, held, paused, source, progress, duration, eq_enabled,
                 current_pos, position, toggle_eq, was_playing, pending,
                 loops>>

\* std::thread::sleep(10 ms); iterations are counted up to CmdLoops.
LiveSleep ==
  /\ pc = "sleep"
  /\ Elapse(SleepMs)
  /\ loops' = Min(loops + 1, CmdLoops)
  /\ key' = "none"
  /\ current_pos' = 0
  /\ position' = 0
  /\ toggle_eq' = FALSE
  /\ was_playing' = FALSE
  /\ pc' = "draw"
  /\ UNCHANGED eqVars
  /\ UNCHANGED <<res, held, paused, source, progress, duration, eq_enabled,
                 pending, history>>

\* The steps of the control thread when nothing fails and 'q' is not pressed.
LiveLoop ==
  \/ UiLock
  \/ UiRender
  \/ LivePollTimeout
  \/ \E k \in Keys \ {"q"}, w \in PollWaits : LivePollKey(k, w)
  \/ SpaceLock
  \/ SpaceToggle
  \/ KeyLockProgress
  \/ KeyReadPos
  \/ SeekEnter
  \/ SeekBuild
  \/ SeekAppend
  \/ SeekLockProgress
  \/ SeekStore
  \/ SeekResume
  \/ TickLockSink
  \/ TickLockProgress
  \/ TickSkip
  \/ TickAdvance
  \/ LiveSleep

InitLive == Init /\ duration \in LiveDurations

NextLive == LiveLoop \/ SinkPull

\* The control thread is never suspended for ever: its next step is taken.
SpecLive == InitLive /\ [][NextLive]_vars /\ WF_vars(LiveLoop)

\* ------------------------------------------------------------------ claims
SeekKeys == {"e", "left", "right"}

\* The command in progress or completed last.
Last == history[Len(history)]

\* seek has just returned to the handler that called it.
SeekReturned == pc = "tick" /\ key \in SeekKeys

\* The unclamped target of a command issued at position p.
Target(k, p) ==
  CASE k = "left" -> p - SeekMs
    [] k = "right" -> p + SeekMs
    [] OTHER -> p

Abs(x) == IF x < 0 THEN -x ELSE x

\* C1: when a seek returns, the position is the target clamped to
\* [0, duration], whatever the state before it; +5 s from 0 on a 200 s track
\* gives 5 s, -5 s from 3 s gives 0.
C1_SeekClamps ==
  SeekReturned =>
    /\ progress = Clamp(Target(Last.key, Last.pos), 0, duration)
    /\ (key = "right" /\ Last.pos = 0 /\ duration = 200000 => progress = 5000)
    /\ (key = "left" /\ Last.pos = 3000 => progress = 0)

C1_Witness ==
  /\ SeekReturned
  /\ key = "left"
  /\ Last.pos = 3000
  /\ progress = 0

\* C2: when a seek or an equalizer toggle returns, the sink is playing iff it
\* was playing when the command was issued.
C2_PlayStatePreserved == SeekReturned => (paused <=> Last.paused)

C2_Witness ==
  /\ SeekReturned
  /\ ~Last.paused
  /\ ~paused
  /\ Len(history) = 2
  /\ history[1].key = "space"
  /\ history[1].paused

\* C3: the position is always within [0, duration].
C3_PositionInRange == 0 <= progress /\ progress <= duration

C3_Witness ==
  /\ pc = "sleep"
  /\ ~paused
  /\ duration > 0
  /\ progress = duration

\* C4: while the sink is paused no step other than a seek's store changes the
\* position: ticks leave it where it was.
C4_PausedFrozen ==
  [][(paused /\ pc # "seek_store") => progress' = progress]_vars

C4_Witness ==
  /\ pc = "sleep"
  /\ paused
  /\ key = "none"
  /\ loops >= 1
  /\ Last.key = "space"
  /\ progress = Last.pos
  /\ progress > 0

\* When and where the sink started the uninterrupted playing it is in.
PlayingFromStart == history = <<>> /\ pc \notin {"returned"}
Resumed ==
  /\ history # <<>>
  /\ Last.key = "space"
  /\ Last.paused
  /\ pc \notin {"space", "space_toggle", "returned"}

Drift(t0, p0) == Abs((progress - p0) - (now - t0))

\* C5: while playing without pause or seek, the position is the wall-clock
\* time elapsed since playing started, within one tick, for every elapsed
\* time up to the end of the track.
C5_TracksWallClock ==
  /\ (PlayingFromStart /\ now <= duration) => Drift(0, 0) <= TickMs
  /\ (Resumed /\ now - Last.at <= duration - Last.pos)
       => Drift(Last.at, Last.pos) <= TickMs

\* C6: outside the rebuild inside seek, the kind of the queued source agrees
\* with eq_enabled.
C6_SourceMatchesToggle ==
  pc \notin {"seek_build", "seek_append", "panicked"} =>
    /\ source.kind \in {"Raw", "Equalized"}
    /\ (source.kind = "Equalized" <=> eq_enabled)

C6_Witness ==
  /\ SeekReturned
  /\ key = "e"
  /\ ~eq_enabled
  /\ source.kind = "Raw"

\* The appended pipeline of the current seek is in the sink.
Appended ==
  /\ key \in SeekKeys
  /\ pc \in {"seek_lock", "seek_store", "seek_resume", "tick", "tick_check",
             "tick_advance", "sleep"}

\* C7 as stated: the filter bank of the pipeline queued by a seek has processed
\* none of the skipped samples, only those the sink pulled.
C7_BankSkipsNothing ==
  (Appended /\ source.kind = "Equalized") => source.processed = source.pulled

\* C7, amended: each seek builds a new filter bank that has processed nothing,
\* wraps the decoder in it and then skips on the wrapped source, so the bank
\* has processed every skipped sample when the sink pulls the sample at the
\* target.
C7_BankProcessesSkipped ==
  /\ pc = "seek_append" => (pending.processed = 0 /\ pending.next = 0)
  /\ Appended => source.next = position + source.pulled
  /\ (Appended /\ source.kind = "Equalized")
       => source.processed = position + source.pulled
  /\ source.kind = "Raw" => source.processed = 0

C7_Witness ==
  /\ Appended
  /\ source.kind = "Equalized"
  /\ position > 0
  /\ source.pulled = 1
  /\ source.processed = position + 1

\* C8: after two equalizer toggles with no command between them, eq_enabled,
\* the kind of the queued source and the play state are what they were before
\* the first.
C8_DoubleToggleRestores ==
  (SeekReturned /\ Len(history) = 2 /\ history[1].key = "e"
     /\ history[2].key = "e") =>
    /\ eq_enabled = history[1].eq
    /\ source.kind = history[1].kind
    /\ paused = history[1].paused

C8_Witness ==
  /\ SeekReturned
  /\ Len(history) = 2
  /\ history[1].key = "e"
  /\ history[2].key = "e"
  /\ eq_enabled
  /\ paused

\* C9 as stated: before the first command the sink is not playing and the
\* position stays 0.
C9_StartsStopped == history = <<>> => (paused /\ progress = 0)

\* C9, amended: the transport starts playing: before the first command the
\* sink is not paused and the position has advanced by one tick per completed
\* iteration of the loop, up to the duration.
C9_StartsPlaying ==
  history = <<>> =>
    /\ ~paused
    /\ progress =
         Min(TickMs * (loops + IF pc = "sleep" THEN 1 ELSE 0), duration)

C9_Witness ==
  /\ history = <<>>
  /\ ~paused
  /\ loops = 2
  /\ progress = 2 * TickMs

\* C10 as stated: the control thread never holds more than one lock.
C10_AtMostOneLock == Len(held) <= 1

\* C10, amended: the control thread holds at most two locks, and two only as
\* the sink's lock and then the position's (in the tick block and in seek);
\* eq_enabled is an atomic flag and has no lock.
C10_SinkThenProgress ==
  /\ Len(held) <= 2
  /\ \A i \in 1..Len(held) : held[i] \in {"sink", "progress"}
  /\ Len(held) = 2 => held = <<"sink", "progress">>

C10_Witness ==
  /\ pc = "seek_store"
  /\ held = <<"sink", "progress">>

\* The mutex the control thread is about to lock, "none" elsewhere.
Wanted ==
  CASE pc \in {"draw", "key_pos", "seek_lock"} -> "progress"
    [] pc = "tick_check" /\ TickPlaying -> "progress"
    [] pc \in {"space", "seek", "tick"} -> "sink"
    [] OTHER -> "none"

\* C11: the control thread never locks a mutex it holds, and holds two only
\* as sink then progress, so no lock acquisition blocks.
C11_NoLockDeadlock ==
  /\ Wanted # "none" => ~Holds(Wanted)
  /\ (Holds("sink") /\ Holds("progress")) => held = <<"sink", "progress">>
  /\ pc \in {"draw", "poll", "sleep"} => held = <<>>

C11_Witness ==
  /\ pc = "seek_lock"
  /\ Wanted = "progress"
  /\ held = <<"sink">>

\* C12: a failure to re-open or decode the file in seek ends run_app with an
\* error returned to main, which reports it.
C12_SeekFailureReturned == pc = "panicked" => res = "Err"

\* C15: no step other than the store of a seek or toggle makes the position
\* smaller: across ticks it never decreases.
C15_MonotonicBetweenSeeks ==
  [][pc # "seek_store" => progress' >= progress]_vars

C15_Witness ==
  /\ pc = "sleep"
  /\ ~paused
  /\ key = "right"
  /\ progress = position + TickMs

\* Where in the track the queued source started.
SourceStart == source.next - source.pulled

\* C16: when a toggle returns, eq_enabled is the negation of what it was, the
\* position is the one the toggle was issued at, and the queued source starts
\* there.
C16_ToggleInPlace ==
  (SeekReturned /\ key = "e") =>
    /\ eq_enabled = ~Last.eq
    /\ progress = Last.pos
    /\ source.kind \in {"Raw", "Equalized"}
    /\ SourceStart = Last.pos

C16_Witness ==
  /\ SeekReturned
  /\ key = "e"
  /\ Last.pos > 0
  /\ progress = Last.pos
  /\ SourceStart = Last.pos
  /\ ~eq_enabled

\* C17: the steps of the play/pause handler leave the position, eq_enabled and
\* the queued source as they are, and the handler negates the pause flag.
C17_PlayPauseFrame ==
  [][(pc \in {"space", "space_toggle"} /\ pc' # pc) =>
       /\ UNCHANGED <<progress, eq_enabled, source, duration>>
       /\ pc = "space" => paused' = paused
       /\ pc = "space_toggle" => paused' = ~paused]_vars

C17_Witness ==
  /\ pc = "tick"
  /\ key = "space"
  /\ Len(history) = 2
  /\ history[1].key = "space"
  /\ ~history[1].paused
  /\ Last.paused
  /\ ~paused
  /\ progress = Last.pos
  /\ progress > 0

\* C18: eq_enabled changes only in the rebuild of a toggle; ticks, play/pause,
\* Left and Right leave it alone, and drawing the interface changes neither
\* it nor the position nor the pause flag.
C18_ToggleOnlyByCommand ==
  [][/\ eq_enabled' # eq_enabled => (pc = "seek_build" /\ key = "e")
     /\ pc \in {"draw", "ui"} => UNCHANGED <<eq_enabled, progress, paused>>]_vars

C18_Witness ==
  /\ SeekReturned
  /\ key = "left"
  /\ Len(history) = 2
  /\ history[1].key = "e"
  /\ ~eq_enabled
  /\ eq_enabled = Last.eq

\* Samples the Equalizer has returned so far.
Returned == Len(eq_out)

\* C13: the Equalizer returns one sample for each upstream sample, in order,
\* and returns None only when the upstream source is exhausted: the output of
\* an upstream sequence of length L has length L.
C13_OnePerSample ==
  /\ Returned + Len(eq_source) = Len(eq_input)
  /\ eq_source = SubSeq(eq_input, Returned + 1, Len(eq_input))
  /\ Returned > 0 => eq_filters[1].x1 = eq_input[Returned]
  /\ eq_done => (eq_source = <<>> /\ Returned = Len(eq_input))

C13_Witness ==
  /\ eq_done
  /\ Len(eq_input) = MaxSamples
  /\ Returned = MaxSamples
  /\ \E i \in 1..MaxSamples : eq_input[i] = 0

\* The bands whose gain is 0 dB.
FlatBands == {k \in 1..Len(DbGains) : DbGains[k] = 0}

\* C14: a filter built with gain 0 has b0 = 1, b1 = a1, b2 = a2, and its
\* output history equals its input history after any input sequence: each
\* output is the input.
C14_ZeroGainIdentity ==
  \A k \in FlatBands :
    k \in DOMAIN eq_filters =>
      /\ eq_filters[k].b0 = Unit
      /\ eq_filters[k].b1 = eq_filters[k].a1
      /\ eq_filters[k].b2 = eq_filters[k].a2
      /\ eq_filters[k].y1 = eq_filters[k].x1
      /\ eq_filters[k].y2 = eq_filters[k].x2

C14_Witness ==
  /\ Returned = MaxSamples
  /\ eq_filters[5].x1 # 0
  /\ eq_filters[5].x1 # eq_filters[1].x1
  /\ eq_filters[5].y1 = eq_filters[5].x1
  /\ eq_filters[5].x2 # 0
  /\ eq_filters[5].y2 = eq_filters[5].x2

Coefficients(f) == <<f.b0, f.b1, f.b2, f.a1, f.a2>>

\* C19: the bank has one filter for each gain, filter k made from frequency k
\* and gain k; each returned sample went through the filters in order, the
\* output of one the input of the next, and each history moved on by exactly
\* one sample per sample pulled.
C19_CascadeInBandOrder ==
  LET n == Len(eq_filters) IN
  eq_filters # <<>> =>
    /\ n = Len(DbGains)
    /\ \A k \in 1..n :
         Coefficients(eq_filters[k]) =
           Coefficients(BiquadNew(Frequencies[k], QFactor, DbGains[k]))
    /\ \A k \in 2..n :
         /\ eq_filters[k].x1 = eq_filters[k - 1].y1
         /\ eq_filters[k].x2 = eq_filters[k - 1].y2
    /\ eq_filters[1].x1 = IF Returned >= 1 THEN eq_input[Returned] ELSE 0
    /\ eq_filters[1].x2 = IF Returned >= 2 THEN eq_input[Returned - 1] ELSE 0
    /\ eq_filters[n].y1 = IF Returned >= 1 THEN eq_out[Returned] ELSE 0
    /\ eq_filters[n].y2 = IF Returned >= 2 THEN eq_out[Returned - 1] ELSE 0

C19_Witness ==
  /\ Returned = 2
  /\ eq_filters[2].x1 # eq_filters[1].x1
  /\ eq_filters[2].x2 # eq_filters[1].x2
  /\ eq_filters[2].x2 # 0
  /\ eq_out[2] # eq_input[2]

\* No key will be pressed any more.
Quiet == loops >= CmdLoops

\* C20: once no more commands come and the sink is playing, the position
\* reaches the duration and stays there for ever.
C20_ReachesEndAndStays ==
  (Quiet /\ ~paused /\ pc = "draw") ~> [](progress = duration)

C20_Witness ==
  /\ Quiet
  /\ ~paused
  /\ pc = "draw"
  /\ history # <<>>
  /\ Last.key = "right"
  /\ duration > 0
  /\ progress = duration

====
